---------------------------- MODULE Spec2Model ----------------------------
(***************************************************************************)
(* A model of archeon's Transfer (src/src/transfer.rs) and of              *)
(* Archeon::ignite (src/src/lib.rs).                                       *)
(*                                                                         *)
(* Text (URLs, paths, header values, bodies) is a sequence of one-character*)
(* strings, so that parsing, splitting and path composition are computed   *)
(* character by character as the code and its libraries compute them.      *)
(***************************************************************************)
EXTENDS Integers, Sequences, FiniteSets, TLC

(***************************************************************************)
(* Bounds of the model.                                                    *)
(***************************************************************************)
\* longest response body, in bytes
MaxBody == 2
\* longest tail (path, query, fragment) of a generated input URL
MaxRest == 3
\* launch() calls per Transfer
MaxLaunch == 1

(***************************************************************************)
(* Text helpers.                                                           *)
(***************************************************************************)
SeqsUpTo(S, n) == UNION {[1..k -> S] : k \in 0..n}

StartsWith(s, p) == Len(s) >= Len(p) /\ SubSeq(s, 1, Len(p)) = p

Drop(s, n) == SubSeq(s, n + 1, Len(s))

Take(s, n) == SubSeq(s, 1, n)

\* the literals of the source, spelled as text
StrHttp == <<"h","t","t","p">>
StrHttps == <<"h","t","t","p","s">>
StrSlash == <<"/">>
StrArcheon == <<"a","r","c","h","e","o","n">>
StrColonSlashSlash == <<":","/","/">>

Letters == {"a","b","c","d","e","f","g","h","i","j","k","l","m",
            "n","o","p","q","r","s","t","u","v","w","x","y","z"}
Digits == {"0","1","2","3","4","5","6","7","8","9"}

(***************************************************************************)
(* Uri::from_str (the `http` crate's parser, called at transfer.rs:29).    *)
(*   - ""                       -> error                                   *)
(*   - "/..."                   -> path-only URI (no scheme, no authority) *)
(*   - scheme "://" auth rest   -> absolute URI; the authority must not be *)
(*                                 empty; any scheme is accepted           *)
(*   - no scheme                -> authority-form URI, and only when the   *)
(*                                 whole text is an authority              *)
(* The fragment ("#...") is dropped from the path-and-query.               *)
(***************************************************************************)
\* bytes allowed in a scheme (SCHEME_CHARS)
SchemeChars == Letters \cup Digits \cup {"+", "-", "."}
\* bytes that end an authority
AuthorityStops == {"/", "?", "#"}
\* bytes allowed in an authority (URI_CHARS, without the stops)
AuthorityChars == Letters \cup Digits \cup {":", ".", "-", "_", "~", "@", "[", "]"}
\* bytes allowed in a path
PathChars == Letters \cup Digits \cup {"/", ":", ".", "-", "_", "~", "@", "+", "="}
\* bytes allowed in a query
QueryChars == PathChars \cup {"?"}

\* Scheme2::parse's scan for "<scheme>://": the length of the scheme, or -1
RECURSIVE ScanScheme(_, _)
ScanScheme(s, i) ==
    IF i > Len(s) THEN -1
    ELSE IF s[i] = ":"
         THEN IF Len(s) < (i - 1) + 3 THEN -1
              ELSE IF SubSeq(s, i + 1, i + 2) # <<"/", "/">> THEN -1
              ELSE i - 1
         ELSE IF s[i] \in SchemeChars THEN ScanScheme(s, i + 1)
         ELSE -1

\* Scheme2::parse: the length of the scheme in s, or -1 when s has none
SchemeLen(s) ==
    IF StartsWith(s, StrHttp \o StrColonSlashSlash) THEN 4
    ELSE IF StartsWith(s, StrHttps \o StrColonSlashSlash) THEN 5
    ELSE IF Len(s) > 3 THEN ScanScheme(s, 1)
    ELSE -1

\* Authority::parse: [ok, end], end the number of bytes before the first stop
RECURSIVE AuthorityScan(_, _, _)
AuthorityScan(s, i, colons) ==
    IF i > Len(s) \/ s[i] \in AuthorityStops
    THEN [ok |-> colons <= 1, end |-> i - 1]
    ELSE IF s[i] \notin AuthorityChars THEN [ok |-> FALSE, end |-> 0]
    ELSE AuthorityScan(s, i + 1, IF s[i] = ":" THEN colons + 1 ELSE colons)

AuthorityParse(s) == AuthorityScan(s, 1, 0)

\* PathAndQuery::from_shared: [ok, data]; the text is cut at the fragment
RECURSIVE PathAndQueryScan(_, _, _)
PathAndQueryScan(s, i, inQuery) ==
    IF i > Len(s) THEN [ok |-> TRUE, data |-> s]
    ELSE IF s[i] = "#" THEN [ok |-> TRUE, data |-> Take(s, i - 1)]
    ELSE IF ~inQuery /\ s[i] = "?" THEN PathAndQueryScan(s, i + 1, TRUE)
    ELSE IF s[i] \in (IF inQuery THEN QueryChars ELSE PathChars)
         THEN PathAndQueryScan(s, i + 1, inQuery)
    ELSE [ok |-> FALSE, data |-> <<>>]

PathAndQueryParse(s) == PathAndQueryScan(s, 1, FALSE)

\* a parsed Uri; scheme = <<>> and authority = <<>> stand for "none"
MkUri(ok, scheme, authority, data) ==
    [ok |-> ok, scheme |-> scheme, authority |-> authority, data |-> data]

UriError == MkUri(FALSE, <<>>, <<>>, <<>>)

\* parse_full: the text after the one-byte and leading-'/' cases
UriParseFull(s) ==
    LET n    == SchemeLen(s)
        rest == IF n < 0 THEN s ELSE Drop(s, n + 3)
        auth == AuthorityParse(rest)
    IN  IF ~auth.ok THEN UriError
        ELSE IF n < 0
             THEN IF auth.end # Len(rest) THEN UriError
                  ELSE MkUri(TRUE, <<>>, rest, <<>>)
        ELSE IF auth.end = 0 THEN UriError
        ELSE LET pq == PathAndQueryParse(Drop(rest, auth.end))
             IN  IF ~pq.ok THEN UriError
                 ELSE MkUri(TRUE, Take(s, n), Take(rest, auth.end), pq.data)

UriFromStr(s) ==
    IF Len(s) = 0 THEN UriError
    ELSE IF s = StrSlash THEN MkUri(TRUE, <<>>, <<>>, StrSlash)
    ELSE IF s = <<"*">> THEN MkUri(TRUE, <<>>, <<>>, <<"*">>)
    ELSE IF s[1] = "/"
         THEN LET pq == PathAndQueryParse(s)
              IN  IF pq.ok THEN MkUri(TRUE, <<>>, <<>>, pq.data) ELSE UriError
    ELSE UriParseFull(s)

\* path_and_query() that is never None
HasPathAndQueryAlways(u) == TRUE

\* Uri::path_and_query(): None exactly for an authority-form URI
HasPathAndQuery(u) == u.scheme # <<>> \/ u.authority = <<>>

\* as_str() that returns the stored text as it is
PathAndQueryStrRaw(u) == u.data

\* PathAndQuery::as_str(): an empty path-and-query reads as "/"
PathAndQueryStr(u) == IF u.data = <<>> THEN StrSlash ELSE u.data


(***************************************************************************)
(* str::rsplit_once("/") and PathBuf::push.                                *)
(***************************************************************************)
\* the position of the last "/" in s, or 0
RECURSIVE LastSlash(_, _)
LastSlash(s, i) ==
    IF i = 0 THEN 0
    ELSE IF s[i] = "/" THEN i
    ELSE LastSlash(s, i - 1)

\* split_once("/"): the split at the first "/" instead of the last
SplitOnceFirst(s) ==
    IF \E i \in 1..Len(s) : s[i] = "/"
    THEN LET i == CHOOSE k \in 1..Len(s) :
                      s[k] = "/" /\ \A j \in 1..(k - 1) : s[j] # "/"
         IN  [found |-> TRUE, before |-> Take(s, i - 1), after |-> Drop(s, i)]
    ELSE [found |-> FALSE, before |-> <<>>, after |-> <<>>]

\* rsplit_once("/"): [found, before, after]
RsplitOnce(s) ==
    LET i == LastSlash(s, Len(s))
    IN  IF i = 0 THEN [found |-> FALSE, before |-> <<>>, after |-> <<>>]
        ELSE [found |-> TRUE, before |-> Take(s, i - 1), after |-> Drop(s, i)]

\* PathBuf::push on a Unix path: an absolute argument replaces the buffer,
\* otherwise a separator is added unless the buffer is empty or ends in one
PathPush(buf, path) ==
    IF StartsWith(path, StrSlash) THEN path
    ELSE IF buf # <<>> /\ buf[Len(buf)] # "/" THEN buf \o StrSlash \o path
    ELSE buf \o path

\* std::env::temp_dir(), the system temp root
TempRoot == <<"/","t","m","p">>

(***************************************************************************)
(* Transfer::init's helpers.                                               *)
(***************************************************************************)
init_create_path(name) == PathPush(<<>>, name)

\* called only on a URI that has a path-and-query (else init panics)
init_filename(u) ==
    LET pq == PathAndQueryStr(u)
        sp == RsplitOnce(pq)
    IN  IF sp.found THEN init_create_path(sp.after) ELSE init_create_path(pq)

\* the path init_temp_dir builds: <temp root>/archeon
StagingPath == PathPush(PathPush(<<>>, TempRoot), StrArcheon)

\* init_file_path that appends the text of filename to that of temp_dir
init_file_path_appends(dir, name) == dir \o name

init_file_path(dir, name) == PathPush(PathPush(<<>>, dir), name)

(***************************************************************************)
(* The filesystem: the set of directories and the regular files' bytes.    *)
(***************************************************************************)
\* the path without its last component
ParentOf(p) ==
    LET i == LastSlash(p, Len(p))
    IN  IF i <= 1 THEN StrSlash ELSE Take(p, i - 1)

\* the path the OS resolves: trailing separators removed
RECURSIVE Resolve(_)
Resolve(p) ==
    IF Len(p) > 1 /\ p[Len(p)] = "/" THEN Resolve(Take(p, Len(p) - 1)) ELSE p

\* create_dir in place of create_dir_all: an existing directory is an error
\* and no parent is created
CreateDirOnly(dirs, files, p, mkdirOk) ==
    IF p \in dirs \/ p \in DOMAIN files \/ ~mkdirOk \/ ParentOf(p) \notin dirs
    THEN [ok |-> FALSE, dirs |-> dirs]
    ELSE [ok |-> TRUE, dirs |-> dirs \cup {p}]

\* create_dir_all: [ok, dirs]. An existing directory is a success; a regular
\* file in the way, or a refused mkdir (mkdirOk = FALSE), is an error
RECURSIVE CreateDirAll(_, _, _, _)
CreateDirAll(dirs, files, p, mkdirOk) ==
    IF p \in dirs THEN [ok |-> TRUE, dirs |-> dirs]
    ELSE IF p \in DOMAIN files \/ ~mkdirOk \/ p = StrSlash
         THEN [ok |-> FALSE, dirs |-> dirs]
    ELSE LET up == CreateDirAll(dirs, files, ParentOf(p), mkdirOk)
         IN  IF up.ok THEN [ok |-> TRUE, dirs |-> up.dirs \cup {p}]
             ELSE [ok |-> FALSE, dirs |-> up.dirs]

\* init_temp_dir: [ok, path, dirs]; the caller panics when ok is FALSE
init_temp_dir(dirs, files, mkdirOk) ==
    LET r == CreateDirAll(dirs, files, StagingPath, mkdirOk)
    IN  [ok |-> r.ok, path |-> StagingPath, dirs |-> r.dirs]

\* File::create can succeed: the parent is a directory and the path is not one
CanCreate(dirs, p) ==
    /\ p # <<>>
    /\ p[Len(p)] # "/"
    /\ p \notin dirs
    /\ ParentOf(p) \in dirs

\* a write of buf at offset 0 of a file holding old (no truncation)
WriteAt0(old, buf) ==
    IF Len(buf) >= Len(old) THEN buf ELSE buf \o Drop(old, Len(buf))

\* the length File::metadata reports
FileLen(files, p) == Len(files[p])

(***************************************************************************)
(* State.                                                                  *)
(***************************************************************************)
\* Transfers 1 and 2 are built by a caller of Transfer::init; Transfer 3 is
\* the one Archeon::ignite builds
Callers == {1, 2}
Ignited == 3
Transfers == Callers \cup {Ignited}

VARIABLES
    input,      \* input[t]: the text given to Transfer::init
    tr,         \* tr[t]: the Transfer's fields uri, filename, temp_dir, file_path
    pc,         \* pc[t]: where the task driving Transfer t stands
    fatal,      \* fatal[t]: the panic that ended the task, "" when none
    srv,        \* srv[t]: what the server at tr[t].uri answers
    net,        \* net[t]: the requests sent by the current launch, in order
    lc,         \* lc[t]: launch's locals
    bar,        \* bar[t]: the progress indicator
    inflight,   \* writes handed to the runtime's blocking pool, not yet done
    written,    \* the owners of the writes done, in the order they were done
    hist,       \* hist[t]: what has completed on the Transfer; write_failed:
                \* the write of the launch now running has failed; write:
                \* where the write of the last launch stands ("none",
                \* "queued", "done", "failed")
    child,      \* child[t]: the last dpkg process spawned and its outcome
    archeon,    \* the handle Archeon::ignite returns
    fs_dirs,    \* the directories that exist
    fs_files    \* the regular files that exist, path -> bytes

vars == <<input, tr, pc, fatal, srv, net, lc, bar, inflight, written, hist,
          child, archeon, fs_dirs, fs_files>>


(***************************************************************************)
(* The inputs the environment draws from.                                  *)
(***************************************************************************)
\* response bodies
Bodies == SeqsUpTo({"a", "b"}, MaxBody)

\* decimal text of a natural number
RECURSIVE DecText(_)
DecText(n) ==
    LET d == <<"0","1","2","3","4","5","6","7","8","9">>[(n % 10) + 1]
    IN  IF n < 10 THEN <<d>> ELSE Append(DecText(n \div 10), d)

\* 2^64, one more than the largest u64
TextTwoPow64 ==
    <<"1","8","4","4","6","7","4","4","0","7","3","7","0","9","5","5","1","6","1","6">>

\* Content-Length header values: every length up to one past the longest
\* body, text that is no number, the empty value, a number too big for u64
HeaderValues ==
    {DecText(n) : n \in 0..(MaxBody + 1)} \cup {<<"x">>, <<>>, TextTwoPow64}

\* what a server answers: HEAD with or without Content-Length, GET with body
Servers ==
    {[has_cl |-> TRUE, cl |-> h, body |-> b] : h \in HeaderValues, b \in Bodies}
    \cup {[has_cl |-> FALSE, cl |-> <<>>, body |-> b] : b \in Bodies}

UrlHttpA == StrHttp \o StrColonSlashSlash \o <<"a">>
UrlHttpsA == StrHttps \o StrColonSlashSlash \o <<"a">>
UrlFtpA == <<"f","t","p">> \o StrColonSlashSlash \o <<"a">>

\* the URLs given to init in the lifecycle specification:
\* http://a/f  https://a/d/g?q  http://a  ftp://a/f  /f  a  and the empty text
Urls ==
    { UrlHttpA \o <<"/","f">>,
      UrlHttpsA \o <<"/","d","/","g","?","q">>,
      UrlHttpA,
      UrlFtpA \o <<"/","f">>,
      <<"/","f">>,
      <<"a">>,
      <<>> }

\* the file a previous run may have left in the staging directory
PriorPath == StagingPath \o <<"/","f">>

\* its bytes: longer than any body
PriorBytes == [i \in 1..(MaxBody + 1) |-> "z"]

\* exit codes of dpkg
ExitCodes == {0, 1, 2}

(***************************************************************************)
(* Initial state: no Transfer exists. The temp root exists; the staging    *)
(* directory exists or not, with or without a file from a previous run, or *)
(* a regular file stands in its place.                                     *)
(***************************************************************************)
NoTransfer ==
    [uri |-> UriError, filename |-> <<>>, temp_dir |-> <<>>, file_path |-> <<>>]

NoServer == [has_cl |-> FALSE, cl |-> <<>>, body |-> <<>>]

NoLocals ==
    [content_length |-> <<>>, bytes |-> <<>>, initial_size |-> 0, total_size |-> 0]

\* ticks: the parity of the set_position calls made
NoBar ==
    [made |-> FALSE, total |-> 0, position |-> 0, finished |-> FALSE,
     ticks |-> 0]

NoHist ==
    [launches |-> 0, launched |-> FALSE, installed |-> FALSE,
     write_failed |-> FALSE, write |-> "none"]

NoChild ==
    [spawned |-> FALSE, program |-> "", args |-> <<>>, cwd |-> <<>>,
     waited |-> FALSE, code |-> 0, result |-> ""]

NoFiles == [p \in {} |-> <<>>]

Init ==
    /\ input = [t \in Transfers |-> <<>>]
    /\ tr = [t \in Transfers |-> NoTransfer]
    /\ pc = [t \in Transfers |-> "none"]
    /\ fatal = [t \in Transfers |-> ""]
    /\ srv = [t \in Transfers |-> NoServer]
    /\ net = [t \in Transfers |-> <<>>]
    /\ lc = [t \in Transfers |-> NoLocals]
    /\ bar = [t \in Transfers |-> NoBar]
    /\ inflight = {}
    /\ written = <<>>
    /\ hist = [t \in Transfers |-> NoHist]
    /\ child = [t \in Transfers |-> NoChild]
    /\ archeon = [made |-> FALSE, ignited |-> FALSE]
    /\ \/ /\ fs_dirs = {StrSlash, TempRoot}
          /\ fs_files \in {NoFiles, StagingPath :> <<>>}
       \/ /\ fs_dirs = {StrSlash, TempRoot, StagingPath}
          /\ fs_files \in {NoFiles, PriorPath :> PriorBytes}

Panic(t, why) ==
    /\ pc' = [pc EXCEPT ![t] = "panicked"]
    /\ fatal' = [fatal EXCEPT ![t] = why]

(***************************************************************************)
(* Transfer::init(uri): parse, derive the filename, create the staging     *)
(* directory, compose file_path. u is Uri::from_str of the text, s is the  *)
(* server the URL points at.                                               *)
(***************************************************************************)
InitBody(t, text, u, s, mkdirOk) ==
    LET d == init_temp_dir(fs_dirs, fs_files, mkdirOk)
        name == init_filename(u)
    IN  /\ pc[t] = "none"
        /\ input' = [input EXCEPT ![t] = text]
        /\ IF ~u.ok
           THEN Panic(t, "Unable to parse URI!") /\ UNCHANGED <<tr, srv, fs_dirs>>
           ELSE IF ~HasPathAndQuery(u)
           THEN Panic(t, "cannot get filename from URI!")
                /\ UNCHANGED <<tr, srv, fs_dirs>>
           ELSE IF ~d.ok
           THEN Panic(t, "create_dir_all") /\ fs_dirs' = d.dirs
                /\ UNCHANGED <<tr, srv>>
           ELSE /\ fs_dirs' = d.dirs
                /\ tr' = [tr EXCEPT ![t] =
                            [uri |-> u, filename |-> name, temp_dir |-> d.path,
                             file_path |-> init_file_path(d.path, name)]]
                /\ srv' = [srv EXCEPT ![t] = s]
                /\ pc' = [pc EXCEPT ![t] = "idle"]
                /\ UNCHANGED fatal
        /\ UNCHANGED <<net, lc, bar, inflight, written, hist, child, fs_files>>

\* a caller builds Transfer t
Transfer_init(t, text, s, mkdirOk) ==
    /\ InitBody(t, text, UriFromStr(text), s, mkdirOk)
    /\ UNCHANGED archeon

\* the URL Archeon::ignite passes to Transfer::init:
\* http://some_test_authority/with/path/and/query
IgniteUrl ==
    StrHttp \o StrColonSlashSlash
    \o <<"s","o","m","e","_","t","e","s","t","_","a","u","t","h","o","r","i","t","y">>
    \o <<"/","w","i","t","h">> \o <<"/","p","a","t","h">> \o <<"/","a","n","d">>
    \o <<"/","q","u","e","r","y">>

IgniteUri == UriFromStr(IgniteUrl)

\* ignite that goes on to launch the Transfer it built: the HEAD request is
\* sent before the handle is returned
ignite_launches(mkdirOk) ==
    LET d == init_temp_dir(fs_dirs, fs_files, mkdirOk)
        name == init_filename(IgniteUri)
    IN  /\ ~archeon.made
        /\ pc[Ignited] = "none"
        /\ input' = [input EXCEPT ![Ignited] = IgniteUrl]
        /\ fs_dirs' = d.dirs
        /\ IF ~d.ok
           THEN Panic(Ignited, "create_dir_all") /\ UNCHANGED <<tr, net, archeon>>
           ELSE /\ tr' = [tr EXCEPT ![Ignited] =
                            [uri |-> IgniteUri, filename |-> name,
                             temp_dir |-> d.path,
                             file_path |-> init_file_path(d.path, name)]]
                /\ net' = [net EXCEPT ![Ignited] = <<"HEAD">>]
                /\ pc' = [pc EXCEPT ![Ignited] = "idle"]
                /\ archeon' = [made |-> TRUE, ignited |-> TRUE]
                /\ UNCHANGED fatal
        /\ UNCHANGED <<srv, lc, bar, inflight, written, hist, child, fs_files>>

\* Archeon::ignite(): Transfer::init, then the handle; launch is not called
ignite(mkdirOk) ==
    /\ ~archeon.made
    /\ InitBody(Ignited, IgniteUrl, IgniteUri, NoServer, mkdirOk)
    /\ archeon' = IF pc'[Ignited] = "idle"
                  THEN [made |-> TRUE, ignited |-> TRUE]
                  ELSE archeon


(***************************************************************************)
(* Transfer::launch. Each action runs the code from one await to the next. *)
(***************************************************************************)
\* the client reaches a server only for an http or https URI
Reachable(u) == u.scheme \in {StrHttp, StrHttps}

\* HeadResult with a default of "0" for a missing Content-Length
HeadResultDefaultsToZero(u, s, transportOk) ==
    IF ~(transportOk /\ Reachable(u))
    THEN [ok |-> FALSE, value |-> <<>>, why |-> "HEAD transport error"]
    ELSE [ok |-> TRUE, value |-> IF s.has_cl THEN s.cl ELSE <<"0">>, why |-> ""]

\* HeadResult that reports the length of the GET body instead of the header
HeadResultFromBody(u, s, transportOk) ==
    IF ~(transportOk /\ Reachable(u))
    THEN [ok |-> FALSE, value |-> <<>>, why |-> "HEAD transport error"]
    ELSE IF ~s.has_cl
    THEN [ok |-> FALSE, value |-> <<>>,
          why |-> "Could not retrieve 'Content-Length' header!"]
    ELSE [ok |-> TRUE, value |-> DecText(Len(s.body)), why |-> ""]

\* launch_content_length's result once the HEAD exchange is over:
\* a transport error and a missing Content-Length both panic
HeadResult(u, s, transportOk) ==
    IF ~(transportOk /\ Reachable(u))
    THEN [ok |-> FALSE, value |-> <<>>, why |-> "HEAD transport error"]
    ELSE IF ~s.has_cl
    THEN [ok |-> FALSE, value |-> <<>>,
          why |-> "Could not retrieve 'Content-Length' header!"]
    ELSE [ok |-> TRUE, value |-> s.cl, why |-> ""]

\* u64::from_str: an optional "+", then at least one digit, no overflow
RECURSIVE DigitsValue(_, _)
DigitsValue(d, acc) ==
    IF d = <<>> THEN acc
    ELSE DigitsValue(Tail(d),
                     acc * 10 + (CHOOSE v \in 0..9 : DecText(v) = <<Head(d)>>))

RECURSIVE StripZeros(_)
StripZeros(d) ==
    IF Len(d) > 1 /\ d[1] = "0" THEN StripZeros(Tail(d)) ELSE d

\* d < e for two digit texts of the same length
RECURSIVE DigitsLess(_, _)
DigitsLess(d, e) ==
    IF d = <<>> THEN FALSE
    ELSE IF Head(d) # Head(e)
         THEN DigitsValue(<<Head(d)>>, 0) < DigitsValue(<<Head(e)>>, 0)
    ELSE DigitsLess(Tail(d), Tail(e))

\* u64::from_str that wraps round on overflow instead of failing
ParseU64Wrapping(text) ==
    LET body == IF text # <<>> /\ text[1] = "+" THEN Tail(text) ELSE text
        d    == StripZeros(body)
    IN  IF body = <<>> \/ \E i \in 1..Len(body) : body[i] \notin Digits
        THEN [ok |-> FALSE, value |-> 0]
        ELSE IF Len(d) >= Len(TextTwoPow64)
        THEN [ok |-> TRUE, value |-> 0]
        ELSE [ok |-> TRUE, value |-> DigitsValue(d, 0)]

\* [ok, value]; a value that fits u64 but not the model checker's integers is not
\* drawn by HeaderValues
ParseU64(text) ==
    LET body == IF text # <<>> /\ text[1] = "+" THEN Tail(text) ELSE text
        d    == StripZeros(body)
    IN  IF body = <<>> \/ \E i \in 1..Len(body) : body[i] \notin Digits
        THEN [ok |-> FALSE, value |-> 0]
        ELSE IF Len(d) > Len(TextTwoPow64)
                \/ (Len(d) = Len(TextTwoPow64) /\ ~DigitsLess(d, TextTwoPow64))
        THEN [ok |-> FALSE, value |-> 0]
        ELSE [ok |-> TRUE, value |-> DigitsValue(d, 0)]

\* LoopContinues with the comparison turned round
LoopContinuesInverted(initial_size, total_size) == initial_size > total_size

\* the condition of launch_create_file's while loop
LoopContinues(initial_size, total_size) == initial_size < total_size

\* launch(): the HEAD request of launch_content_length is sent
launch(t) ==
    /\ pc[t] = "idle"
    /\ hist[t].launches < MaxLaunch
    /\ hist' = [hist EXCEPT ![t].launches = @ + 1, ![t].write_failed = FALSE,
                          ![t].write = "none"]
    /\ net' = [net EXCEPT ![t] = <<"HEAD">>]
    /\ lc' = [lc EXCEPT ![t] = NoLocals]
    /\ bar' = [bar EXCEPT ![t] = NoBar]
    /\ pc' = [pc EXCEPT ![t] = "head"]
    /\ UNCHANGED <<input, tr, fatal, srv, inflight, written, child, archeon,
                   fs_dirs, fs_files>>

\* the HEAD exchange ends; on success launch sends the GET request
launch_content_length(t, transportOk) ==
    LET r == HeadResult(tr[t].uri, srv[t], transportOk)
    IN  /\ pc[t] = "head"
        /\ IF r.ok
           THEN /\ lc' = [lc EXCEPT ![t].content_length = r.value]
                /\ net' = [net EXCEPT ![t] = @ \o <<"HEAD ok", "GET">>]
                /\ pc' = [pc EXCEPT ![t] = "get"]
                /\ UNCHANGED fatal
           ELSE /\ Panic(t, r.why)
                /\ net' = [net EXCEPT ![t] = Append(@, "HEAD failed")]
                /\ UNCHANGED lc
        /\ UNCHANGED <<input, tr, srv, bar, inflight, written, hist, child, archeon, fs_dirs, fs_files>>

\* launch_get that creates the file as soon as the GET response arrives,
\* before the body is drained
launch_get_creates(t, transportOk) ==
    /\ pc[t] = "get"
    /\ IF transportOk
       THEN /\ net' = [net EXCEPT ![t] = Append(@, "GET ok")]
            /\ pc' = [pc EXCEPT ![t] = "drain"]
            /\ fs_files' = IF CanCreate(fs_dirs, tr[t].file_path)
                           THEN (tr[t].file_path :> <<>>) @@ fs_files
                           ELSE fs_files
            /\ UNCHANGED fatal
       ELSE /\ Panic(t, "we need to retry here")
            /\ net' = [net EXCEPT ![t] = Append(@, "GET failed")]
            /\ UNCHANGED fs_files
    /\ UNCHANGED <<input, tr, srv, lc, bar, inflight, written, hist, child,
                   archeon, fs_dirs>>

\* the GET exchange ends; on success launch starts draining the body
launch_get(t, transportOk) ==
    /\ pc[t] = "get"
    /\ IF transportOk
       THEN /\ net' = [net EXCEPT ![t] = Append(@, "GET ok")]
            /\ pc' = [pc EXCEPT ![t] = "drain"]
            /\ UNCHANGED fatal
       ELSE /\ Panic(t, "we need to retry here")
            /\ net' = [net EXCEPT ![t] = Append(@, "GET failed")]
    /\ UNCHANGED <<input, tr, srv, lc, bar, inflight, written, hist, child, archeon, fs_dirs, fs_files>>

\* launch_body_to_bytes ends; on success launch_create_file calls File::create
launch_body_to_bytes(t, drainOk) ==
    /\ pc[t] = "drain"
    /\ IF drainOk
       THEN /\ lc' = [lc EXCEPT ![t].bytes = srv[t].body]
            /\ pc' = [pc EXCEPT ![t] = "create"]
            /\ UNCHANGED fatal
       ELSE /\ Panic(t, "body drain error")
            /\ UNCHANGED lc
    /\ UNCHANGED <<input, tr, srv, net, bar, inflight, written, hist, child, archeon, fs_dirs, fs_files>>


(***************************************************************************)
(* launch_create_file. tokio's File::write_all copies the bytes into the   *)
(* File's buffer, hands the write to the runtime's blocking pool and       *)
(* returns; the write itself (blocking_write) runs on a pool thread, at    *)
(* offset 0 of the file the handle opened. A body shorter than tokio's     *)
(* buffer limit (2 MiB) is one such write. File::create, File::open and    *)
(* metadata return only when the filesystem call is done.                  *)
(***************************************************************************)
\* File::create that opens without truncating
OpenedUntruncated(files, p) ==
    IF p \in DOMAIN files THEN files ELSE (p :> <<>>) @@ files

\* the bytes at p after File::create: the file exists and is empty
Truncated(files, p) == (p :> <<>>) @@ files

\* write_all that hands nothing to the blocking pool
PendingWriteNone(t, p, bytes) == {}

\* the write that write_all(bytes) leaves with the blocking pool
PendingWrite(t, p, bytes) ==
    IF bytes = <<>> THEN {}
    ELSE {[owner |-> t, launch |-> hist[t].launches, path |-> p, buf |-> bytes]}

\* the loop is over: the indicator is finished and launch returns
Finish(t) ==
    /\ bar' = [bar EXCEPT ![t].made = TRUE, ![t].total = lc'[t].total_size,
                          ![t].position = lc'[t].total_size, ![t].finished = TRUE]
    /\ pc' = [pc EXCEPT ![t] = "idle"]
    /\ hist' = [hist EXCEPT ![t].launched = TRUE]

\* File::create ends; write_all hands over the bytes; the first
\* launch_get_file_length starts
launch_create_file(t, ioOk) ==
    LET p == tr[t].file_path
    IN  /\ pc[t] = "create"
        /\ IF ioOk /\ CanCreate(fs_dirs, p)
           THEN /\ fs_files' = Truncated(fs_files, p)
                /\ inflight' = inflight \cup PendingWrite(t, p, lc[t].bytes)
                /\ hist' = [hist EXCEPT ![t].write =
                                IF PendingWrite(t, p, lc[t].bytes) = {}
                                THEN "none" ELSE "queued"]
                /\ pc' = [pc EXCEPT ![t] = "stat0"]
                /\ UNCHANGED fatal
           ELSE /\ Panic(t, "File::create")
                /\ UNCHANGED <<fs_files, inflight, hist>>
        /\ UNCHANGED <<input, tr, srv, net, lc, bar, written, child, archeon,
                       fs_dirs>>

\* a pool thread performs a write handed over by write_all. The File keeps
\* an error of the write for its next write or flush; launch_create_file
\* makes neither and drops the File, so the error reaches nobody. A write
\* that fails stores no byte here.
blocking_write(w, ioOk) ==
    /\ w \in inflight
    /\ inflight' = inflight \ {w}
    /\ IF ioOk
       THEN /\ fs_files' = [fs_files EXCEPT ![w.path] = WriteAt0(@, w.buf)]
            /\ written' = Append(written, w.owner)
            /\ hist' = [hist EXCEPT ![w.owner].write =
                            IF w.launch = hist[w.owner].launches
                            THEN "done" ELSE @]
       ELSE /\ hist' = [hist EXCEPT
                            ![w.owner].write_failed =
                                @ \/ ( /\ w.launch = hist[w.owner].launches
                                       /\ pc[w.owner] \in {"stat0", "poll"} ),
                            ![w.owner].write =
                                IF w.launch = hist[w.owner].launches
                                THEN "failed" ELSE @]
            /\ UNCHANGED <<fs_files, written>>
    /\ UNCHANGED <<input, tr, pc, fatal, srv, net, lc, bar, child, archeon,
                   fs_dirs>>

\* the first launch_get_file_length ends; Content-Length is parsed, the
\* indicator is created and the loop condition is tested for the first time
launch_initial_size(t, ioOk) ==
    LET n == FileLen(fs_files, tr[t].file_path)
        total == ParseU64(lc[t].content_length)
    IN  /\ pc[t] = "stat0"
        /\ IF ~ioOk
           THEN Panic(t, "launch_get_file_length") /\ UNCHANGED <<lc, bar, hist>>
           ELSE IF ~total.ok
           THEN /\ Panic(t, "Content-Length is no u64")
                /\ lc' = [lc EXCEPT ![t].initial_size = n]
                /\ UNCHANGED <<bar, hist>>
           ELSE /\ lc' = [lc EXCEPT ![t].initial_size = n,
                                    ![t].total_size = total.value]
                /\ UNCHANGED fatal
                /\ IF LoopContinues(n, total.value)
                   THEN /\ bar' = [bar EXCEPT ![t].made = TRUE,
                                              ![t].total = total.value]
                        /\ pc' = [pc EXCEPT ![t] = "poll"]
                        /\ UNCHANGED hist
                   ELSE Finish(t)
        /\ UNCHANGED <<input, tr, srv, net, inflight, written, child, archeon,
                       fs_dirs, fs_files>>

\* one turn of the loop: launch_get_file_length ends, the position is set
\* and the loop condition is tested again
launch_poll(t, ioOk) ==
    LET current_size == FileLen(fs_files, tr[t].file_path)
    IN  /\ pc[t] = "poll"
        /\ IF ~ioOk
           THEN Panic(t, "launch_get_file_length") /\ UNCHANGED <<lc, bar, hist>>
           ELSE /\ lc' = [lc EXCEPT ![t].initial_size = current_size]
                /\ UNCHANGED fatal
                /\ IF LoopContinues(current_size, lc[t].total_size)
                   THEN /\ bar' = [bar EXCEPT ![t].position = current_size,
                                              ![t].ticks = 1 - @]
                        /\ UNCHANGED <<pc, hist>>
                   ELSE Finish(t)
        /\ UNCHANGED <<input, tr, srv, net, inflight, written, child, archeon,
                       fs_dirs, fs_files>>

(***************************************************************************)
(* Transfer::install_package.                                              *)
(***************************************************************************)
\* the command install_package builds
DpkgCommand(x) ==
    [program |-> "dpkg", args |-> <<"--install", x.filename>>, cwd |-> x.temp_dir]

\* InstallResult that reads a non-zero exit code as an error
InstallResultChecksExit(waited, code) ==
    IF waited /\ code = 0 THEN "Ok" ELSE "Err"

\* what install_package returns once output() is over: the exit status is
\* printed, not examined
InstallResult(waited, code) == IF waited THEN "Ok" ELSE "Err"

\* Command::output() spawns dpkg, or fails to
install_package(t, spawnOk) ==
    LET c == DpkgCommand(tr[t])
    IN  /\ pc[t] = "idle"
        /\ IF spawnOk
           THEN /\ child' = [child EXCEPT ![t] =
                               [spawned |-> TRUE, program |-> c.program,
                                args |-> c.args, cwd |-> c.cwd,
                                waited |-> FALSE, code |-> 0, result |-> ""]]
                /\ pc' = [pc EXCEPT ![t] = "dpkg"]
           ELSE /\ child' = [child EXCEPT ![t] = [NoChild EXCEPT !.result = "Err"]]
                /\ UNCHANGED pc
        /\ UNCHANGED <<input, tr, fatal, srv, net, lc, bar, inflight, written,
                       hist, archeon, fs_dirs, fs_files>>

\* install_package_done that records the last result only: a failed install
\* after a successful one clears what the first one recorded
install_package_done_forgets(t, waited, code) ==
    LET r == InstallResult(waited, code)
    IN  /\ pc[t] = "dpkg"
        /\ child' = [child EXCEPT ![t].waited = waited,
                                  ![t].code = IF waited THEN code ELSE 0,
                                  ![t].result = r]
        /\ hist' = [hist EXCEPT ![t].installed = (r = "Ok")]
        /\ pc' = [pc EXCEPT ![t] = "idle"]
        /\ UNCHANGED <<input, tr, fatal, srv, net, lc, bar, inflight, written,
                       archeon, fs_dirs, fs_files>>

\* output() ends: dpkg exited with a code, or waiting for it failed
install_package_done(t, waited, code) ==
    LET r == InstallResult(waited, code)
    IN  /\ pc[t] = "dpkg"
        /\ child' = [child EXCEPT ![t].waited = waited,
                                  ![t].code = IF waited THEN code ELSE 0,
                                  ![t].result = r]
        /\ hist' = [hist EXCEPT ![t].installed = @ \/ r = "Ok"]
        /\ pc' = [pc EXCEPT ![t] = "idle"]
        /\ UNCHANGED <<input, tr, fatal, srv, net, lc, bar, inflight, written,
                       archeon, fs_dirs, fs_files>>

(***************************************************************************)
(* Specifications.                                                         *)
(***************************************************************************)
\* the steps of launch on Transfer t
LaunchSteps(t) ==
    \/ launch(t)
    \/ \E ok \in BOOLEAN : launch_content_length(t, ok)
    \/ \E ok \in BOOLEAN : launch_get(t, ok)
    \/ \E ok \in BOOLEAN : launch_body_to_bytes(t, ok)
    \/ \E ok \in BOOLEAN : launch_create_file(t, ok)
    \/ \E ok \in BOOLEAN : launch_initial_size(t, ok)
    \/ \E ok \in BOOLEAN : launch_poll(t, ok)

\* the steps of install_package on Transfer t
InstallSteps(t) ==
    \/ \E ok \in BOOLEAN : install_package(t, ok)
    \/ \E waited \in BOOLEAN, code \in ExitCodes : install_package_done(t, waited, code)

\* one Transfer through its whole life, and Archeon::ignite beside it
Next ==
    \/ \E text \in Urls, s \in Servers, ok \in BOOLEAN : Transfer_init(1, text, s, ok)
    \/ LaunchSteps(1)
    \/ InstallSteps(1)
    \/ \E w \in inflight, ok \in BOOLEAN : blocking_write(w, ok)
    \/ \E ok \in BOOLEAN : ignite(ok)

Spec == Init /\ [][Next]_vars

\* the texts given to init in the URL specification: an optional scheme, an
\* optional host and a tail of at most MaxRest bytes, and the asterisk form
UriInputs ==
    { pre \o host \o rest :
        pre \in {<<>>, StrHttp \o StrColonSlashSlash, StrHttps \o StrColonSlashSlash,
                 <<"f","t","p">> \o StrColonSlashSlash},
        host \in {<<>>, <<"a">>},
        rest \in SeqsUpTo({"/", "?", "x", "#", " "}, MaxRest) }
    \cup {<<"*">>}

\* Transfer::init alone, over every generated text
NextUri ==
    \E text \in UriInputs, ok \in BOOLEAN : Transfer_init(1, text, NoServer, ok)

SpecUri == Init /\ [][NextUri]_vars

\* URLs of two Transfers: different URLs that resolve to the same file_path
ConcUrls == { UrlHttpA \o <<"/","f">>, UrlHttpsA \o <<"/","f">> }

\* their bodies: runs of one byte, of every length from 1 to MaxBody; the
\* byte tells the two Transfers apart
ConcBodies(t) == {[i \in 1..k |-> IF t = 1 THEN "a" ELSE "b"] : k \in 1..MaxBody}

\* their servers: the advertised length is the body's, or 0
ConcServers(t) ==
    UNION {{[has_cl |-> TRUE, cl |-> DecText(Len(b)), body |-> b],
            [has_cl |-> TRUE, cl |-> <<"0">>, body |-> b]} : b \in ConcBodies(t)}

\* two Transfers launched concurrently on one runtime
NextConc ==
    \/ \E t \in Callers, text \in ConcUrls, ok \in BOOLEAN :
           \E s \in ConcServers(t) : Transfer_init(t, text, s, ok)
    \/ \E t \in Callers : LaunchSteps(t)
    \/ \E w \in inflight, ok \in BOOLEAN : blocking_write(w, ok)

SpecConc == Init /\ [][NextConc]_vars

\* one Transfer launched against a server whose Content-Length is any
\* number up to one past the longest body
LiveUrl == UrlHttpA \o <<"/","f">>

LiveServers ==
    {[has_cl |-> TRUE, cl |-> DecText(n), body |-> b] :
        n \in 0..(MaxBody + 1), b \in Bodies}

NextLive ==
    \/ \E s \in LiveServers : Transfer_init(1, LiveUrl, s, TRUE)
    \/ LaunchSteps(1)
    \/ \E w \in inflight, ok \in BOOLEAN : blocking_write(w, ok)

\* the runtime keeps polling the task that runs launch, every request and
\* filesystem call ends, and the blocking pool runs every write it was given
SpecLive ==
    /\ Init /\ [][NextLive]_vars
    /\ WF_vars(LaunchSteps(1))
    /\ WF_vars(\E w \in inflight, ok \in BOOLEAN : blocking_write(w, ok))

\* the servers of two Transfers with one file_path: each advertises the
\* length of its own body
HonestServers(t) ==
    {[has_cl |-> TRUE, cl |-> DecText(Len(b)), body |-> b] : b \in ConcBodies(t)}

NextConcLive ==
    \/ \E t \in Callers : \E s \in HonestServers(t) :
           Transfer_init(t, LiveUrl, s, TRUE)
    \/ \E t \in Callers : LaunchSteps(t)
    \/ \E w \in inflight, ok \in BOOLEAN : blocking_write(w, ok)

\* both tasks are polled by the runtime and the blocking pool runs every
\* write it was given
SpecConcLive ==
    /\ Init /\ [][NextConcLive]_vars
    /\ \A t \in Callers : WF_vars(LaunchSteps(t))
    /\ WF_vars(\E w \in inflight, ok \in BOOLEAN : blocking_write(w, ok))

(***************************************************************************)
(* Properties.                                                             *)
(***************************************************************************)
\* launch has returned on Transfer t and nothing else is running on it
Returned(t) == pc[t] = "idle" /\ hist[t].launched

\* the server of Transfer t advertises the length of its body
HonestLength(t) == srv[t].has_cl /\ srv[t].cl = DecText(Len(srv[t].body))

\* a regular file exists at p
IsFile(p) == p \in DOMAIN fs_files /\ p \notin fs_dirs

\* C1: end-to-end transfer. When the server answers HEAD with Content-Length
\* |B| and GET with body B, then once launch has returned the file at
\* file_path exists, is a regular file, and has length exactly |B|.
C1_EndToEnd ==
    \A t \in Transfers :
        Returned(t) /\ HonestLength(t) =>
            /\ IsFile(tr[t].file_path)
            /\ FileLen(fs_files, tr[t].file_path) = Len(srv[t].body)

\* C1 witness: launch returned for a body of the greatest length, over a
\* longer file left by a previous run
C1_Witness ==
    \E t \in Transfers :
        /\ Returned(t) /\ HonestLength(t)
        /\ Len(srv[t].body) = MaxBody
        /\ tr[t].file_path = PriorPath
        /\ fs_files[PriorPath] = srv[t].body

\* C2 as stated: whenever launch has returned, whatever Content-Length was
\* advertised and whatever the file held before, the file at file_path
\* contains exactly the GET body B.
C2_FileIsBodyAtReturn ==
    \A t \in Transfers :
        Returned(t) =>
            /\ IsFile(tr[t].file_path)
            /\ fs_files[tr[t].file_path] = srv[t].body

\* the position of the first x in log, or 0
FirstIndex(log, x) ==
    IF \E i \in 1..Len(log) : log[i] = x
    THEN CHOOSE i \in 1..Len(log) : log[i] = x /\ \A j \in 1..(i - 1) : log[j] # x
    ELSE 0

\* C3: in every launch HEAD precedes GET, and if the HEAD step fails (a
\* transport error, or a response without Content-Length) launch is fatal
\* and no GET request is sent.
C3_HeadBeforeGet ==
    \A t \in Transfers :
        LET log == net[t]
            get == FirstIndex(log, "GET")
        IN  /\ get > 0 => /\ log[1] = "HEAD"
                          /\ FirstIndex(log, "HEAD ok") \in 2..(get - 1)
            /\ (log # <<>> /\ ~srv[t].has_cl) => get = 0
            /\ FirstIndex(log, "HEAD failed") > 0 =>
                   get = 0 /\ pc[t] = "panicked" /\ fatal[t] # ""

\* C3 witness: a HEAD response without Content-Length ended launch, and no
\* GET was sent
C3_Witness ==
    \E t \in Transfers :
        /\ ~srv[t].has_cl
        /\ net[t] = <<"HEAD", "HEAD failed">>
        /\ pc[t] = "panicked"


\* init returned Transfer t
Built(t) == tr[t].uri.ok

\* the path-and-query of Transfer t's uri, as Uri::path_and_query reads it
PathAndQueryOf(t) == PathAndQueryStr(tr[t].uri)

HasSlash(s) == \E i \in 1..Len(s) : s[i] = "/"

\* C4: filename derivation. When the path-and-query holds a "/", filename is
\* what follows its final "/" (query included, nothing decoded); when it
\* holds none, filename is the whole path-and-query.
C4_FilenameDerivation ==
    \A t \in Transfers :
        Built(t) =>
            LET pq == PathAndQueryOf(t)
                name == tr[t].filename
            IN  IF HasSlash(pq)
                THEN /\ ~HasSlash(name)
                     /\ Len(name) < Len(pq)
                     /\ pq[Len(pq) - Len(name)] = "/"
                     /\ name = SubSeq(pq, Len(pq) - Len(name) + 1, Len(pq))
                ELSE name = pq

\* C4 witness: a path-and-query with two "/" and a query, the filename taken
\* after the second "/"
C4_Witness ==
    \E t \in Transfers :
        /\ Built(t)
        /\ Cardinality({i \in 1..Len(PathAndQueryOf(t)) : PathAndQueryOf(t)[i] = "/"}) = 2
        /\ tr[t].filename = <<"?">>

\* the text has "://" somewhere
HasSchemeMark(text) ==
    \E i \in 1..(Len(text) - 2) : SubSeq(text, i, i + 2) = StrColonSlashSlash

\* the text is an http or https URL with a host
IsHttpUrl(text) ==
    \E pre \in {StrHttp \o StrColonSlashSlash, StrHttps \o StrColonSlashSlash} :
        /\ StartsWith(text, pre)
        /\ Len(text) > Len(pre)
        /\ text[Len(pre) + 1] \notin AuthorityStops

\* C5 as stated: every Transfer init produces has an http or https uri with
\* a non-empty authority, and every other text makes init fail fatally.
C5_OnlyHttpUrls ==
    \A t \in Transfers :
        /\ Built(t) => /\ tr[t].uri.scheme \in {StrHttp, StrHttps}
                       /\ tr[t].uri.authority # <<>>
        /\ (pc[t] # "none" /\ ~IsHttpUrl(input[t])) => pc[t] = "panicked"

\* C5 as amended: every Transfer init produces has a uri that is absolute (a
\* scheme, of any name, and a non-empty authority) or is a path-only
\* reference (text that starts with "/", or "*": no scheme, no authority);
\* the empty text and every text without "://" that is not such a reference
\* (the authority-only forms among them) make init fail fatally.
C5_AbsoluteOrPathOnly ==
    \A t \in Transfers :
        /\ Built(t) =>
               \/ /\ tr[t].uri.scheme # <<>>
                  /\ tr[t].uri.authority # <<>>
                  /\ HasSchemeMark(input[t])
               \/ /\ tr[t].uri.scheme = <<>>
                  /\ tr[t].uri.authority = <<>>
                  /\ (StartsWith(input[t], StrSlash) \/ input[t] = <<"*">>)
        /\ ( /\ pc[t] # "none"
             /\ ~HasSchemeMark(input[t])
             /\ ~StartsWith(input[t], StrSlash)
             /\ input[t] # <<"*">> ) => pc[t] = "panicked" /\ tr[t] = NoTransfer

\* C5 witness: init built a Transfer from a path-only reference
C5_Witness ==
    \E t \in Transfers :
        /\ input[t] = <<"/", "x", "?">>
        /\ pc[t] = "idle"
        /\ tr[t].uri.scheme = <<>>
        /\ tr[t].filename = <<"x", "?">>


StagingIsDir == StagingPath \in fs_dirs /\ StagingPath \notin DOMAIN fs_files

\* C6: staging directory. After a successful init <temp root>/archeon exists
\* and is a directory; an init that finds it there succeeds in this step and
\* leaves the directories and the files as they were; no step of init,
\* launch or install_package removes it.
C6_StagingDirectory ==
    /\ [](\A t \in Transfers : Built(t) => StagingIsDir)
    /\ [][ /\ StagingIsDir => StagingIsDir'
           /\ \A t \in Transfers :
                  (pc[t] = "none" /\ pc'[t] # "none" /\ StagingIsDir) =>
                      /\ fatal'[t] # "create_dir_all"
                      /\ fs_dirs' = fs_dirs
                      /\ fs_files' = fs_files ]_vars

\* C6 witness: two inits have succeeded, the second after a launch and an
\* install, and the file of a previous run is still in the directory
C6_Witness ==
    /\ Built(1) /\ Built(Ignited)
    /\ hist[1].launched /\ hist[1].installed
    /\ StagingIsDir
    /\ PriorPath \in DOMAIN fs_files
    /\ fs_files[PriorPath] = PriorBytes

\* C7: path composition. In every state after init, through any sequence of
\* launch and install_package steps, file_path is temp_dir joined with
\* filename and temp_dir is <temp root>/archeon; no step changes uri,
\* filename, temp_dir or file_path.
C7_PathComposition ==
    /\ [](\A t \in Transfers :
             Built(t) =>
                 /\ tr[t].temp_dir = TempRoot \o StrSlash \o StrArcheon
                 /\ tr[t].file_path =
                        IF StartsWith(tr[t].filename, StrSlash)
                        THEN tr[t].filename
                        ELSE tr[t].temp_dir \o StrSlash \o tr[t].filename)
    /\ [][\A t \in Transfers : Built(t) => tr'[t] = tr[t]]_vars

\* C7 witness: launch and install_package have both run on a Transfer whose
\* filename carries a query
C7_Witness ==
    /\ hist[1].launched /\ hist[1].installed
    /\ tr[1].filename = <<"g", "?", "q">>
    /\ tr[1].file_path = StagingPath \o <<"/", "g", "?", "q">>

\* C8: install_package spawns `dpkg --install <filename>` with the working
\* directory temp_dir; it returns Ok for every exit code once the child was
\* spawned and awaited, and an error exactly when spawning or awaiting failed.
C8_InstallResult ==
    \A t \in Transfers :
        LET c == child[t]
        IN  /\ c.spawned =>
                   /\ c.program = "dpkg"
                   /\ c.args = <<"--install", tr[t].filename>>
                   /\ c.cwd = tr[t].temp_dir
            /\ c.result = "Ok" <=> (c.spawned /\ c.waited)
            /\ c.result = "Err" <=> (c # NoChild /\ pc[t] # "dpkg" /\ ~c.waited)
            /\ c.result \in {"", "Ok", "Err"}

\* C8 witness: dpkg exited with a non-zero code and install_package
\* returned Ok
C8_Witness ==
    \E t \in Transfers :
        /\ child[t].spawned /\ child[t].waited
        /\ child[t].code = 2
        /\ child[t].result = "Ok"
        /\ pc[t] = "idle"

\* the lifecycle state of Transfer t: 0 none, 1 Ready, 2 Staged, 3 Installed
Phase(t) ==
    IF ~Built(t) THEN 0
    ELSE IF hist[t].installed THEN 3
    ELSE IF hist[t].launched THEN 2
    ELSE 1

BothWritten ==
    /\ Built(1) /\ Built(2)
    /\ tr[1].file_path = tr[2].file_path
    /\ \A t \in Callers : \E i \in 1..Len(written) : written[i] = t
    /\ \A t \in Callers : hist[t].write = "done"
    /\ inflight = {}

\* the Transfer whose write was done last, and the other one
LastWriter == written[Len(written)]
OtherWriter == CHOOSE t \in Callers : t # LastWriter

Count(log, x) == Cardinality({i \in 1..Len(log) : log[i] = x})

\* the current launch of Transfer t has returned normally
ReturnedNow(t) == pc[t] = "idle" /\ bar[t].finished

\* C11 as stated: no retry. A launch sends at most one HEAD and at most one
\* GET, and every error in it (HEAD, GET, drain, file create, write, stat) is
\* fatal: a launch in which one happened has not returned normally.
C11_EveryErrorFatal ==
    \A t \in Transfers :
        /\ Count(net[t], "HEAD") <= 1
        /\ Count(net[t], "GET") <= 1
        /\ (Count(net[t], "HEAD failed") + Count(net[t], "GET failed") > 0) =>
               pc[t] = "panicked"
        /\ hist[t].write_failed => ~ReturnedNow(t)


\* C12: Content-Length retrieval. Once the HEAD exchange has succeeded,
\* launch_content_length's value is the Content-Length header of the HEAD
\* response, byte for byte; the total of the progress indicator is that
\* value parsed as a u64, whatever the length of the GET body.
C12_ContentLength ==
    \A t \in Transfers :
        /\ FirstIndex(net[t], "HEAD ok") > 0 =>
               /\ srv[t].has_cl
               /\ lc[t].content_length = srv[t].cl
        /\ bar[t].made =>
               /\ ParseU64(srv[t].cl).ok
               /\ bar[t].total = ParseU64(srv[t].cl).value

\* C12 witness: the header announces one byte more than the GET body has,
\* and the indicator's total is the announced number
C12_Witness ==
    \E t \in Transfers :
        /\ lc[t].content_length = DecText(Len(srv[t].body) + 1)
        /\ Len(lc[t].bytes) = MaxBody
        /\ bar[t].made
        /\ bar[t].total = MaxBody + 1


\* the text read as a URL reference by position alone: the scheme is what
\* stands before the first "://", the authority runs from there to the first
\* "/", "?" or "#", the path-and-query from there to the first "#"
RECURSIVE FirstOf(_, _, _)
FirstOf(text, stops, i) ==
    IF i > Len(text) \/ text[i] \in stops THEN i ELSE FirstOf(text, stops, i + 1)

RECURSIVE MarkAt(_, _)
MarkAt(text, i) ==
    IF i + 2 > Len(text) THEN 0
    ELSE IF SubSeq(text, i, i + 2) = StrColonSlashSlash THEN i
    ELSE MarkAt(text, i + 1)

TextScheme(text) ==
    IF StartsWith(text, StrSlash) \/ MarkAt(text, 1) = 0 THEN <<>>
    ELSE Take(text, MarkAt(text, 1) - 1)

AuthorityStart(text) ==
    IF TextScheme(text) = <<>> THEN 1 ELSE MarkAt(text, 1) + 3

TextAuthority(text) ==
    IF TextScheme(text) = <<>> THEN <<>>
    ELSE SubSeq(text, AuthorityStart(text),
                FirstOf(text, {"/", "?", "#"}, AuthorityStart(text)) - 1)

TextPathAndQuery(text) ==
    LET from == AuthorityStart(text) + Len(TextAuthority(text))
    IN  SubSeq(text, from, FirstOf(text, {"#"}, from) - 1)

\* C13 as stated: for every URL init accepts, the scheme, the authority and
\* the path-and-query of the Transfer's uri equal those of the text.
C13_RoundTrip ==
    \A t \in Transfers :
        Built(t) =>
            /\ tr[t].uri.scheme = TextScheme(input[t])
            /\ tr[t].uri.authority = TextAuthority(input[t])
            /\ PathAndQueryOf(t) = TextPathAndQuery(input[t])

\* C13 as amended: for every URL init accepts, the scheme and the authority
\* of the Transfer's uri equal those of the text, and its path-and-query
\* equals that of the text when that is not empty and reads "/" when it is
\* empty.
C13_RoundTripSlash ==
    \A t \in Transfers :
        Built(t) =>
            /\ tr[t].uri.scheme = TextScheme(input[t])
            /\ tr[t].uri.authority = TextAuthority(input[t])
            /\ PathAndQueryOf(t) =
                   IF TextPathAndQuery(input[t]) = <<>> THEN StrSlash
                   ELSE TextPathAndQuery(input[t])

\* C13 witness: init accepted a URL with no path, and the path-and-query of
\* its uri reads "/"
C13_Witness ==
    \E t \in Transfers :
        /\ Built(t)
        /\ input[t] = UrlHttpsA \o <<"#", "x">>
        /\ tr[t].uri.scheme = StrHttps
        /\ tr[t].uri.authority = <<"a">>
        /\ PathAndQueryOf(t) = StrSlash


\* C14: Archeon::ignite is a Transfer init and nothing more. The handle it
\* returns has ignited = TRUE and the staging directory exists then; the
\* step sends no request, queues no write and leaves every file as it was,
\* and nothing is ever sent or launched for the Transfer it built.
C14_IgniteOnlyInits ==
    /\ [](archeon.made =>
              /\ archeon.ignited
              /\ Built(Ignited)
              /\ tr[Ignited].uri = IgniteUri
              /\ StagingIsDir
              /\ net[Ignited] = <<>>
              /\ hist[Ignited].launches = 0)
    /\ [][(~archeon.made /\ archeon'.made) =>
              /\ net' = net
              /\ inflight' = inflight
              /\ fs_files' = fs_files]_vars

\* C14 witness: ignite returned its handle while a file of a previous run
\* was in the staging directory, and the file is as it was
C14_Witness ==
    /\ archeon.made /\ archeon.ignited
    /\ pc[1] = "none"
    /\ fs_files = PriorPath :> PriorBytes
    /\ inflight = {}


\* launch_create_file is running on Transfer t and the write of its body has
\* been done
WriteDone(t) ==
    /\ pc[t] \in {"stat0", "poll"}
    /\ ~hist[t].write_failed
    /\ \A w \in inflight : w.owner # t

\* C15 as stated: termination of launch. For every body B and every
\* advertised Content-Length N, N # |B| included, once the body has been
\* written the progress loop eventually exits, the indicator is finished
\* and launch returns (or a failed stat ends it).
C15_LaunchTerminates ==
    \A t \in Transfers :
        WriteDone(t) ~> (ReturnedNow(t) \/ pc[t] = "panicked")


C17_FilenameIsComponent ==
    \A t \in Transfers :
        Built(t) =>
            /\ tr[t].filename # <<>>
            /\ ~HasSlash(tr[t].filename)
            /\ tr[t].file_path = tr[t].temp_dir \o StrSlash \o tr[t].filename
            /\ tr[t].file_path \notin {tr[t].temp_dir, tr[t].temp_dir \o StrSlash}


\* the panics of the network steps of launch: HEAD, GET, draining the body
NetworkFailures ==
    {"HEAD transport error", "Could not retrieve 'Content-Length' header!",
     "we need to retry here", "body drain error"}

FailedOnNetwork(t) == pc[t] = "panicked" /\ fatal[t] \in NetworkFailures

\* the files there can be before anything is launched
FilesBefore == {NoFiles, StagingPath :> <<>>, PriorPath :> PriorBytes}

\* C18: a network failure leaves the filesystem alone. No step of launch up
\* to the end of the drain creates, truncates or writes a file or queues a
\* write; a launch that failed at HEAD, at GET or in the drain has queued no
\* write, and when it is the only launch made so far every file is as it
\* was before (a file already at file_path keeps its bytes).
C18_NetworkFailureLeavesFiles ==
    /\ [](\A t \in Transfers :
             FailedOnNetwork(t) =>
                 /\ hist[t].write = "none"
                 /\ \A w \in inflight :
                        ~(w.owner = t /\ w.launch = hist[t].launches)
                 /\ (\A u \in Transfers :
                        hist[u].launches <= (IF u = t THEN 1 ELSE 0)) =>
                        fs_files \in FilesBefore /\ inflight = {})
    /\ [][\A t \in Transfers :
              (pc[t] \in {"idle", "head", "get", "drain"}
               /\ pc'[t] \in {"head", "get", "drain", "create", "panicked"}
               /\ pc'[t] # pc[t]) =>
                  fs_files' = fs_files /\ inflight' = inflight]_vars

\* C18 witness: draining the body failed while a file of a previous run was
\* at file_path, and the file has the bytes it had
C18_Witness ==
    \E t \in Transfers :
        /\ pc[t] = "panicked" /\ fatal[t] = "body drain error"
        /\ tr[t].file_path = PriorPath
        /\ fs_files = PriorPath :> PriorBytes


\* an error has ended a launch of one of the two Transfers, or a write of
\* one of them has failed
SomeLaunchFailed ==
    \E u \in Callers : pc[u] = "panicked" \/ hist[u].write = "failed"

\* C19 as stated: two Transfers with one file_path, each served the length
\* of its own body, launched concurrently. Under every interleaving every
\* launch that has started eventually returns (behaviours in which an error
\* ends a launch or a write fails are left aside).
C19_BothTerminate ==
    \A t \in Callers :
        (pc[t] = "head") ~> (ReturnedNow(t) \/ SomeLaunchFailed)


\* launch on Transfer t ended because Content-Length is no u64
ParseFatal(t) == pc[t] = "panicked" /\ fatal[t] = "Content-Length is no u64"

\* the header values drawn that are decimal numbers in 0..2^64-1
DecimalU64 == {DecText(n) : n \in 0..(MaxBody + 1)}

=============================================================================
